---- MODULE Spec2Model ----
(***************************************************************************)
(* A model of util/acquire.py (the Acquire cache-or-fetch helper) and of   *)
(* util/prepare.py (drop_missing_values, prepare_kepler_explore,           *)
(* prepare_kepler_modeling).                                               *)
(*                                                                         *)
(* A DataFrame is a record [columns, data]: columns is the sequence of     *)
(* column labels, data the sequence of rows, a row being                   *)
(* [index |-> its index label, values |-> its cells in column order].      *)
(* A scalar (a cell or a label) is [kind, text]: kind "nan" is a missing   *)
(* value, "num" a number written text, "str" the string text.              *)
(***************************************************************************)
EXTENDS Integers, Sequences, FiniteSets, TLC

VARIABLES
    file_name,   \* Acquire.file_name, the attribute set by __init__
    impl,        \* "base": Acquire itself; "child": a subclass overriding read_from_source
    source,      \* the DataFrame the child's read_from_source returns at present
    fs,          \* the file system: path -> Absent or a csv file
    last,        \* the last get_data call: its arguments and its outcome
    stdout,      \* what the last get_data call printed
    changed,     \* TRUE iff the source data changed since the last get_data call
    df,          \* the DataFrame handed to the functions of prepare.py
    ret          \* the last call of a function of prepare.py and its outcome

acquireVars == <<file_name, impl, source, fs, last, stdout, changed>>
prepareVars == <<df, ret>>
vars == <<file_name, impl, source, fs, last, stdout, changed, df, ret>>

----------------------------------------------------------------------------
(* Bounds of the model.                                                    *)

\* Most rows of a DataFrame read_from_source returns.
MaxSrcRows == 1

\* Most rows of a DataFrame given to prepare.py.
MaxRows == 3

----------------------------------------------------------------------------
(* Scalars and DataFrames.                                                 *)

NaN == [kind |-> "nan", text |-> ""]
Num(t) == [kind |-> "num", text |-> t]
Str(t) == [kind |-> "str", text |-> t]

isna(c) == c.kind = "nan"

RangeOf(s) == {s[i] : i \in 1..Len(s)}

\* The sequences over S of length at most n.
SeqsUpTo(S, n) == UNION {[1..k -> S] : k \in 0..n}

\* The DataFrame with these labels whose rows hold these cell tuples, under
\* the default index 0, 1, ...
Frame(labels, cells) ==
    [columns |-> labels,
     data |-> [r \in 1..Len(cells) |-> [index |-> r - 1, values |-> cells[r]]]]

NoFrame == Frame(<<>>, <<>>)

----------------------------------------------------------------------------
(* The csv form of a DataFrame: DataFrame.to_csv(path, index = False) and  *)
(* pandas.read_csv(path), as acquire.py calls them (every other parameter  *)
(* at its default). A csv file is its header fields and its records'       *)
(* fields, as text; quoting is not modelled.                               *)

Absent == [exists |-> FALSE, header |-> <<>>, records |-> <<>>]
CsvFile(h, recs) == [exists |-> TRUE, header |-> h, records |-> recs]

\* to_csv writes a missing value as the empty field (na_rep = '') and every
\* other scalar as its text: the number 1 and the string "1" both as 1.
FieldOf(c) == IF isna(c) THEN "" ELSE c.text

\* A to_csv that writes the header and no record.
to_csv_header_only(d) ==
    CsvFile([i \in 1..Len(d.columns) |-> FieldOf(d.columns[i])], <<>>)

\* index = False: the index labels are not written.
to_csv(d) ==
    CsvFile([i \in 1..Len(d.columns) |-> FieldOf(d.columns[i])],
            [r \in 1..Len(d.data) |->
                [i \in 1..Len(d.data[r].values) |-> FieldOf(d.data[r].values[i])]])

\* The fields read_csv reads as a missing value (of its default na_values,
\* those the model's files can hold).
NAValues == {"", "NA", "NaN", "nan", "null"}

\* The fields read_csv parses as a number (those the model's files can hold).
NumericFields == {"0", "1", "2"}

\* read_csv infers a column's type from all its fields: a column is numeric
\* iff every field that is not missing parses as a number.
NumericColumn(f, i) ==
    \A r \in 1..Len(f.records) :
        f.records[r][i] \in NAValues \/ f.records[r][i] \in NumericFields

ParseField(f, r, i) ==
    IF f.records[r][i] \in NAValues THEN NaN
    ELSE IF NumericColumn(f, i) THEN Num(f.records[r][i])
    ELSE Str(f.records[r][i])

\* Every label read from the header is a string; the rows get the default
\* index.
read_csv(f) ==
    [columns |-> [i \in 1..Len(f.header) |-> Str(f.header[i])],
     data |-> [r \in 1..Len(f.records) |->
                [index |-> r - 1,
                 values |-> [i \in 1..Len(f.records[r]) |-> ParseField(f, r, i)]]]]

----------------------------------------------------------------------------
(* acquire.py: class Acquire.                                              *)

Return(d) == [status |-> "ok", df |-> d]
Raise(e) == [status |-> e, df |-> NoFrame]

\* os.path.exists(path)
exists(files, path) == files[path].exists

\* A read_from_source that returns data on the base class too.
read_from_source_default(kind, data) == Return(data)

\* Acquire.read_from_source raises; a child class overrides it and returns
\* the source's data.
read_from_source(kind, data) ==
    IF kind = "base" THEN Raise("NotImplementedError") ELSE Return(data)

\* A create_cache_file that never replaces a file that is there.
create_cache_file_keep_existing(files, path, d, cache_data) ==
    IF cache_data /\ ~exists(files, path)
    THEN [files EXCEPT ![path] = to_csv(d)] ELSE files

\* A create_cache_file that ignores cache_data.
create_cache_file_always(files, path, d, cache_data) ==
    [files EXCEPT ![path] = to_csv(d)]

\* Acquire.create_cache_file: the file system after it.
create_cache_file(files, path, d, cache_data) ==
    IF cache_data THEN [files EXCEPT ![path] = to_csv(d)] ELSE files

\* What Acquire.create_cache_file prints.
create_cache_file_prints(cache_data, verbose) ==
    IF ~verbose THEN <<>>
    ELSE IF cache_data THEN <<"Cacheing data.">> ELSE <<"Data not cached.">>

\* A condition that ignores use_cache.
cached_any_flag(files, path, use_cache) == exists(files, path)

\* The condition of get_data's if: read the cached file?
cached(files, path, use_cache) == exists(files, path) /\ use_cache

\* Acquire.get_data: what it returns or raises (out), the file system after
\* it (files), how often it invoked read_from_source (src_calls) and what
\* it printed (printed).
get_data(files, path, kind, data, use_cache, cache_data, verbose) ==
    IF cached(files, path, use_cache)
    THEN [out |-> Return(read_csv(files[path])),
          files |-> files,
          src_calls |-> 0,
          printed |-> IF verbose THEN <<"Reading from .csv file.">> ELSE <<>>]
    ELSE LET got == read_from_source(kind, data)
             said == IF verbose THEN <<"Reading from source.">> ELSE <<>>
         IN  IF got.status # "ok"
             THEN [out |-> got, files |-> files, src_calls |-> 1, printed |-> said]
             ELSE [out |-> Return(got.df),
                   files |-> create_cache_file(files, path, got.df, cache_data),
                   src_calls |-> 1,
                   printed |-> said \o create_cache_file_prints(cache_data, verbose)]

\* The paths of the model's file system: the one the instance was built
\* with and one other.
CachePath == "kepler.csv"
OtherPath == "notes.csv"
Paths == {CachePath, OtherPath}

\* The cells and DataFrames a child's read_from_source returns: one column,
\* at most MaxSrcRows rows; the last one is pd.DataFrame([[1]]), whose
\* column label is the number 0.
SourceCells == {NaN, Num("1"), Str("1"), Str(""), Str("a")}
SourceDatasets ==
    {Frame(<<Str("koi_period")>>, cells) :
        cells \in SeqsUpTo([1..1 -> SourceCells], MaxSrcRows)}
    \cup {Frame(<<Num("0")>>, <<<<Num("1")>>>>)}

\* The states of the cache file before the first call: none, a file an
\* earlier run cached, or one downloaded by hand.
InitialFiles ==
    {Absent} \cup {to_csv(d) : d \in SourceDatasets}
    \cup {CsvFile(<<"koi_period">>, <<<<"NA">>>>),
          CsvFile(<<"koi_period">>, <<<<"a">>, <<"1">>>>)}

\* No function of prepare.py has been called.
EmptyRet ==
    [fn |-> "none", given |-> NoFrame, rpc |-> <<0, 1>>, rpr |-> <<0, 1>>,
     status |-> "ok", cleaned |-> NoFrame, df |-> NoFrame]

\* The file at OtherPath.
OtherFile == CsvFile(<<"note">>, <<<<"1">>>>)

NoCall ==
    [called |-> FALSE, use_cache |-> FALSE, cache_data |-> FALSE,
     verbose |-> FALSE, out |-> Raise("none"), src_calls |-> 0,
     existed |-> FALSE, second |-> FALSE]

InitAcquire ==
    /\ file_name = CachePath
    /\ impl \in {"base", "child"}
    /\ source \in IF impl = "base" THEN {NoFrame} ELSE SourceDatasets
    /\ \E f \in InitialFiles :
          fs = [p \in Paths |-> IF p = CachePath THEN f ELSE OtherFile]
    /\ last = NoCall
    /\ stdout = <<>>
    /\ changed = FALSE
    /\ df = NoFrame
    /\ ret = EmptyRet

\* The call before this one succeeded with cache_data = True, and the source
\* has not changed since.
FollowsCachedCall ==
    last.called /\ last.out.status = "ok" /\ last.cache_data /\ ~changed

\* One call self.get_data(use_cache, cache_data, verbose); last records its
\* arguments and outcome, whether a file was at file_name when it began
\* (existed) and whether it follows a cached call (second).
GetData(use_cache, cache_data, verbose) ==
    LET r == get_data(fs, file_name, impl, source, use_cache, cache_data, verbose)
    IN  /\ fs' = r.files
        /\ last' = [called |-> TRUE, use_cache |-> use_cache,
                    cache_data |-> cache_data, verbose |-> verbose,
                    out |-> r.out, src_calls |-> r.src_calls,
                    existed |-> exists(fs, file_name),
                    second |-> FollowsCachedCall]
        /\ stdout' = r.printed
        /\ changed' = FALSE
        /\ UNCHANGED <<file_name, impl, source>>

\* The data at the source changes between two calls (once: what it was in
\* between, no call has seen).
ChangeSource(d) ==
    /\ impl = "child"
    /\ ~changed
    /\ d # source
    /\ source' = d
    /\ changed' = TRUE
    /\ UNCHANGED <<file_name, impl, fs, last, stdout>>

GetDataStep == \E uc \in BOOLEAN, cd \in BOOLEAN, vb \in BOOLEAN : GetData(uc, cd, vb)
ChangeSourceStep == \E d \in SourceDatasets : ChangeSource(d)

NextAcquire ==
    \/ GetDataStep /\ UNCHANGED prepareVars
    \/ ChangeSourceStep /\ UNCHANGED prepareVars

SpecAcquire == InitAcquire /\ [][NextAcquire]_vars

----------------------------------------------------------------------------
(* prepare.py. A threshold (required_percentage_columns, _rows) is a       *)
(* fraction <<numerator, denominator>>; the model's thresholds are halves  *)
(* and quarters, which Python's floats hold exactly, as they hold n * p.   *)

\* int(x): the fraction a / b cut to its whole part.
round_down(a, b) == a \div b

\* Python's round(a / b): to the nearest integer, a half to the even one.
round(a, b) ==
    LET q == a \div b
        rem == a % b
    IN  IF 2 * rem < b THEN q
        ELSE IF 2 * rem > b THEN q + 1
        ELSE IF q % 2 = 0 THEN q ELSE q + 1

\* The number of values of this sequence of cells that are not missing.
count(cells) == Cardinality({i \in 1..Len(cells) : ~isna(cells[i])})

\* Column i of d, as the sequence of its cells.
column(d, i) == [r \in 1..Len(d.data) |-> d.data[r].values[i]]

\* d restricted to the columns at these positions, in this order.
take(d, positions) ==
    [columns |-> [k \in 1..Len(positions) |-> d.columns[positions[k]]],
     data |-> [r \in 1..Len(d.data) |->
                [index |-> d.data[r].index,
                 values |-> [k \in 1..Len(positions) |->
                                d.data[r].values[positions[k]]]]]]

Positions(d) == [i \in 1..Len(d.columns) |-> i]

\* A dropna that keeps what has more than thresh values.
dropna_strict(d, axis, thresh) ==
    IF axis = "columns"
    THEN take(d, SelectSeq(Positions(d), LAMBDA i : count(column(d, i)) > thresh))
    ELSE [columns |-> d.columns,
          data |-> SelectSeq(d.data, LAMBDA row : count(row.values) > thresh)]

\* DataFrame.dropna(axis = axis, thresh = thresh): keep the columns (the
\* rows) that hold at least thresh values that are not missing.
dropna(d, axis, thresh) ==
    IF axis = "columns"
    THEN take(d, SelectSeq(Positions(d), LAMBDA i : count(column(d, i)) >= thresh))
    ELSE [columns |-> d.columns,
          data |-> SelectSeq(d.data, LAMBDA row : count(row.values) >= thresh)]

\* A drop_missing_values whose row threshold counts the columns of its
\* argument, not those left after the column drop.
drop_missing_values_stale_shape(d, rpc, rpr) ==
    dropna(dropna(d, "columns", round(Len(d.data) * rpc[1], rpc[2])),
           "index", round(Len(d.columns) * rpr[1], rpr[2]))

\* drop_missing_values(df, required_percentage_columns,
\* required_percentage_rows); df.shape is (rows, columns).
drop_missing_values(d, rpc, rpr) ==
    LET d1 == dropna(d, "columns", round(Len(d.data) * rpc[1], rpc[2]))
    IN  dropna(d1, "index", round(Len(d1.columns) * rpr[1], rpr[2]))

\* The position of the column labelled name, 0 if there is none.
position(d, name) ==
    IF \E i \in 1..Len(d.columns) : d.columns[i] = Str(name)
    THEN CHOOSE i \in 1..Len(d.columns) : d.columns[i] = Str(name)
    ELSE 0

\* A mask that keeps the CANDIDATE rows.
not_candidate_inverted(d) ==
    [r \in 1..Len(d.data) |->
        d.data[r].values[position(d, "koi_disposition")] = Str("CANDIDATE")]

\* ~(df.koi_disposition == 'CANDIDATE'), a mask over the rows.
not_candidate(d) ==
    [r \in 1..Len(d.data) |->
        ~(d.data[r].values[position(d, "koi_disposition")] = Str("CANDIDATE"))]

\* df[mask]: the rows whose mask is true.
getitem_mask(d, mask) ==
    [columns |-> d.columns,
     data |-> [k \in 1..Len(SelectSeq(Positions([columns |-> d.data]),
                                       LAMBDA r : mask[r])) |->
                d.data[SelectSeq(Positions([columns |-> d.data]),
                                 LAMBDA r : mask[r])[k]]]]

\* df.drop(columns = names): every column but those named.
drop(d, names) ==
    take(d, SelectSeq(Positions(d), LAMBDA i : d.columns[i].text \notin RangeOf(names)))

\* A selection that leaves the columns in the order df has them in.
getitem_columns_in_place(d, names) ==
    take(d, SelectSeq(Positions(d), LAMBDA i : d.columns[i].text \in RangeOf(names)))

\* df[names]: the named columns, in the order of names.
getitem_columns(d, names) ==
    take(d, [k \in 1..Len(names) |-> position(d, names[k])])

\* df.rename(columns = rename_map)
rename(d, rename_map) ==
    [columns |-> [i \in 1..Len(d.columns) |->
                    IF d.columns[i].kind = "str" /\ d.columns[i].text \in DOMAIN rename_map
                    THEN Str(rename_map[d.columns[i].text])
                    ELSE d.columns[i]],
     data |-> d.data]

has_columns(d, names) == \A k \in 1..Len(names) : position(d, names[k]) # 0

columns_to_drop == <<"rowid", "kepid", "kepoi_name">>

explore_rename_map == [c \in {"koi_disposition"} |-> "disposition"]

columns_to_keep ==
    <<"koi_disposition", "koi_depth", "koi_prad", "koi_teq", "koi_model_snr",
      "koi_period", "koi_duration">>

modeling_rename_map ==
    [c \in RangeOf(columns_to_keep) |->
        CASE c = "koi_disposition" -> "disposition"
          [] c = "koi_depth" -> "transit_depth"
          [] c = "koi_prad" -> "planetary_radius"
          [] c = "koi_teq" -> "temperature"
          [] c = "koi_model_snr" -> "normalized_depth"
          [] c = "koi_period" -> "orbital_period"
          [] c = "koi_duration" -> "transit_duration"]

\* The thresholds both functions pass to drop_missing_values: 0.75 and 1.
prepare_columns_threshold == <<3, 4>>
prepare_rows_threshold == <<1, 1>>

\* prepare_kepler_explore(df): its outcome, and cleaned, the value of df
\* after the drop_missing_values step. df.koi_disposition raises
\* AttributeError and df.drop raises KeyError when a column is not there.
prepare_kepler_explore(d) ==
    LET d1 == drop_missing_values(d, prepare_columns_threshold, prepare_rows_threshold)
        d2 == getitem_mask(d1, not_candidate(d1))
    IN  IF ~has_columns(d1, <<"koi_disposition">>)
        THEN [status |-> "AttributeError", cleaned |-> d1, df |-> NoFrame]
        ELSE IF ~has_columns(d2, columns_to_drop)
        THEN [status |-> "KeyError", cleaned |-> d1, df |-> NoFrame]
        ELSE [status |-> "ok", cleaned |-> d1,
              df |-> rename(drop(d2, columns_to_drop), explore_rename_map)]

\* prepare_kepler_modeling(df): as above; df[columns_to_keep] raises
\* KeyError when a column is not there.
prepare_kepler_modeling(d) ==
    LET d1 == drop_missing_values(d, prepare_columns_threshold, prepare_rows_threshold)
        d2 == getitem_mask(d1, not_candidate(d1))
    IN  IF ~has_columns(d1, <<"koi_disposition">>)
        THEN [status |-> "AttributeError", cleaned |-> d1, df |-> NoFrame]
        ELSE IF ~has_columns(d2, columns_to_keep)
        THEN [status |-> "KeyError", cleaned |-> d1, df |-> NoFrame]
        ELSE [status |-> "ok", cleaned |-> d1,
              df |-> rename(getitem_columns(d2, columns_to_keep), modeling_rename_map)]

\* The tables given to prepare.py: these columns, at most MaxRows rows, in
\* every row at most one missing cell, in one of SparseColumns; the other
\* cells hold a disposition (koi_disposition) or a number, written as the
\* column's name.
KeplerColumns ==
    <<"rowid", "kepid", "kepoi_name", "koi_duration", "koi_disposition",
      "koi_depth", "koi_prad", "koi_teq", "koi_model_snr", "koi_period">>

SparseColumns == {"kepoi_name", "koi_disposition", "koi_teq"}

Dispositions == {Str("CANDIDATE"), Str("CONFIRMED")}

KeplerRows ==
    {[i \in 1..Len(KeplerColumns) |->
        IF KeplerColumns[i] \in missing THEN NaN
        ELSE IF KeplerColumns[i] = "koi_disposition" THEN disposition
        ELSE Num(KeplerColumns[i])] :
        disposition \in Dispositions,
        missing \in {{}} \cup {{c} : c \in SparseColumns}}

KeplerTables ==
    {Frame([i \in 1..Len(KeplerColumns) |-> Str(KeplerColumns[i])], cells) :
        cells \in SeqsUpTo(KeplerRows, MaxRows)}

Thresholds == {<<0, 1>>, <<1, 2>>, <<3, 4>>, <<1, 1>>}

InitPrepare ==
    /\ df \in KeplerTables
    /\ ret = EmptyRet
    /\ file_name = CachePath /\ impl = "base" /\ source = NoFrame
    /\ fs = [p \in Paths |-> Absent] /\ last = NoCall /\ stdout = <<>>
    /\ changed = FALSE

\* The functions are pure: the model calls one of them, once, on the table
\* it starts with. ret records the call: the function, the table it was
\* given, the thresholds, and the outcome.

\* One call drop_missing_values(df, rpc, rpr).
DropMissingValues(rpc, rpr) ==
    /\ ret.fn = "none"
    /\ ret' = [fn |-> "drop_missing_values", given |-> df, rpc |-> rpc, rpr |-> rpr,
               status |-> "ok", cleaned |-> NoFrame,
               df |-> drop_missing_values(df, rpc, rpr)]
    /\ UNCHANGED df

\* One call prepare_kepler_explore(df).
PrepareExplore ==
    /\ ret.fn = "none"
    /\ ret' = [fn |-> "prepare_kepler_explore", given |-> df,
               rpc |-> <<0, 1>>, rpr |-> <<0, 1>>]
              @@ prepare_kepler_explore(df)
    /\ UNCHANGED df

\* One call prepare_kepler_modeling(df).
PrepareModeling ==
    /\ ret.fn = "none"
    /\ ret' = [fn |-> "prepare_kepler_modeling", given |-> df,
               rpc |-> <<0, 1>>, rpr |-> <<0, 1>>]
              @@ prepare_kepler_modeling(df)
    /\ UNCHANGED df

DropMissingValuesStep == \E rpc \in Thresholds, rpr \in Thresholds : DropMissingValues(rpc, rpr)

NextPrepare ==
    \/ DropMissingValuesStep /\ UNCHANGED acquireVars
    \/ PrepareExplore /\ UNCHANGED acquireVars
    \/ PrepareModeling /\ UNCHANGED acquireVars

SpecPrepare == InitPrepare /\ [][NextPrepare]_vars

----------------------------------------------------------------------------
(* Claims about Acquire, under SpecAcquire.                                *)

\* This step is a get_data call: the one whose arguments last' records.
CallStep == GetData(last'.use_cache, last'.cache_data, last'.verbose)

\* The call of this step took the branch that reads from the source.
SourceBranch == ~(last'.use_cache /\ fs[file_name].exists)

\* What read_from_source gives on this instance.
Upstream == IF impl = "child" THEN Return(source) ELSE Raise("NotImplementedError")

\* A DataFrame that csv text keeps as it is: the default index, string
\* labels, and in every column either numbers only or strings that are not
\* read as missing and are not all number-like (missing cells anywhere).
CsvStable(d) ==
    /\ \A i \in 1..Len(d.columns) : d.columns[i].kind = "str" /\ d.columns[i].text # ""
    /\ \A r \in 1..Len(d.data) : d.data[r].index = r - 1
    /\ \A i \in 1..Len(d.columns) :
         LET present == {d.data[r].values[i] : r \in 1..Len(d.data)} \ {NaN}
         IN  \/ \A c \in present : c.kind = "num"
             \/ /\ \A c \in present : c.kind = "str" /\ c.text \notin NAValues
                /\ \E c \in present : c.text \notin NumericFields

\* C1: every get_data call with use_cache true and a file at file_name
\* returns what read_csv reads from that file and invokes read_from_source
\* zero times; every other call invokes read_from_source exactly once and
\* its outcome is the call's outcome, also when a cache file is present.
C1_BranchSelection ==
    [][CallStep =>
        IF last'.use_cache /\ fs[file_name].exists
        THEN last'.src_calls = 0 /\ last'.out = Return(read_csv(fs[file_name]))
        ELSE last'.src_calls = 1 /\ last'.out = Upstream]_vars

\* A call that went to the source although a different cache file was there.
C1_Witness ==
    /\ last.called /\ ~last.use_cache /\ ~last.cache_data
    /\ last.existed /\ fs[file_name].exists
    /\ last.src_calls = 1
    /\ last.out = Return(source)
    /\ read_csv(fs[file_name]) # source

\* A successful call with cache_data = True is followed at once, the source
\* unchanged, by a call with use_cache = True.
SecondCall == FollowsCachedCall /\ CallStep /\ last'.use_cache

\* C2 as stated: the second call returns a dataset equal to the first
\* call's D and does not invoke read_from_source.
C2_RoundTripEqual ==
    [][SecondCall => last'.src_calls = 0 /\ last'.out = last.out]_vars

\* C2 amended: the second call does not invoke read_from_source and returns
\* what read_csv reads from the cache file: D itself after a first call
\* that was a cache hit, read_csv(to_csv(D)) after one that fetched D from
\* the source, which is D whenever csv text keeps D as it is.
C2_RoundTripThroughCsv ==
    [][SecondCall =>
        /\ last'.src_calls = 0
        /\ last'.out.status = "ok"
        /\ last.src_calls = 0 => last'.out = last.out
        /\ last.src_calls = 1 => last'.out.df = read_csv(to_csv(last.out.df))
        /\ CsvStable(last.out.df) => last'.out = last.out]_vars

\* A second call has returned from the cache, without a source call, the
\* csv-stable data the source holds.
C2_Witness ==
    /\ last.called /\ last.second /\ last.use_cache
    /\ last.src_calls = 0 /\ last.out.status = "ok"
    /\ CsvStable(last.out.df) /\ Len(last.out.df.data) > 0
    /\ last.out.df = source

\* C3: a get_data call changes the file at file_name only on the source
\* branch with cache_data true; on a cache hit and on the source branch
\* with cache_data false the file system is as before; no other file and
\* not file_name is changed.
C3_Frame ==
    [][CallStep =>
        /\ fs'[file_name] # fs[file_name] => SourceBranch /\ last'.cache_data
        /\ ~SourceBranch \/ ~last'.cache_data => fs' = fs
        /\ \A p \in Paths \ {file_name} : fs'[p] = fs[p]
        /\ file_name' = file_name]_vars

\* A successful source-branch call with cache_data = False, and no file.
C3_Witness ==
    /\ last.called /\ ~last.cache_data
    /\ last.src_calls = 1 /\ last.out.status = "ok"
    /\ ~last.existed /\ ~fs[file_name].exists

\* C4: on the base class, a get_data call that takes the source branch
\* raises NotImplementedError and leaves the file system as it was; a call
\* with use_cache true and a cache file present succeeds.
C4_BaseRaises ==
    [][impl = "base" /\ CallStep =>
        IF SourceBranch
        THEN last'.out = Raise("NotImplementedError") /\ fs' = fs
        ELSE last'.out.status = "ok"]_vars

\* The base class has raised with cache_data = True and a cache file there.
C4_Witness ==
    /\ impl = "base"
    /\ last.called /\ ~last.use_cache /\ last.cache_data
    /\ last.out.status = "NotImplementedError"
    /\ last.existed /\ fs[file_name].exists

\* C5 as stated: after a successful get_data call with cache_data = True
\* the cache file exists and holds the dataset the call returned.
C5_CacheHoldsReturned ==
    last.called /\ last.out.status = "ok" /\ last.cache_data =>
        /\ fs[file_name].exists
        /\ read_csv(fs[file_name]) = last.out.df

\* C5 amended: after a successful get_data call with cache_data = True the
\* cache file exists; after a cache hit read_csv reads the returned dataset
\* from it; after a source-branch call it is to_csv of the returned
\* dataset D, whatever was there before, and reads back as D whenever csv
\* text keeps D as it is.
C5_CacheHoldsCsvOfReturned ==
    last.called /\ last.out.status = "ok" /\ last.cache_data =>
        /\ fs[file_name].exists
        /\ last.src_calls = 0 => read_csv(fs[file_name]) = last.out.df
        /\ last.src_calls = 1 => fs[file_name] = to_csv(last.out.df)
        /\ CsvStable(last.out.df) => read_csv(fs[file_name]) = last.out.df

\* A source-branch call with use_cache = False, made when a cache file was
\* there, has left the csv-stable data it fetched in the cache file.
C5_Witness ==
    /\ last.called /\ ~last.use_cache /\ last.cache_data /\ last.existed
    /\ last.src_calls = 1 /\ last.out.status = "ok"
    /\ Len(last.out.df.data) > 0
    /\ CsvStable(last.out.df)
    /\ read_csv(fs[file_name]) = last.out.df

----------------------------------------------------------------------------
(* Claims about prepare.py, under SpecPrepare. They are stated over the    *)
(* positions of the input's columns and rows, not by calling the           *)
(* functions again.                                                        *)

\* The integer nearest to a / b, the even one of two equally near.
Nearest(a, b) ==
    CHOOSE t \in 0..(a + 1) :
        LET gap == IF b * t >= a THEN b * t - a ELSE a - b * t
        IN  2 * gap <= b /\ (2 * gap = b => t % 2 = 0)

\* The number of rows of d with a value in column i.
Present(d, i) == Cardinality({r \in 1..Len(d.data) : ~isna(d.data[r].values[i])})

\* The columns of d with at least round(rows * p) values.
SurvivingColumns(d, p) ==
    LET t == Nearest(Len(d.data) * p[1], p[2])
    IN  {i \in 1..Len(d.columns) : Present(d, i) >= t}

\* The rows of d with at least round(|K| * p) values in the columns K.
SurvivingRows(d, K, p) ==
    LET t == Nearest(Cardinality(K) * p[1], p[2])
    IN  {r \in 1..Len(d.data) : Cardinality({i \in K : ~isna(d.data[r].values[i])}) >= t}

\* The place of x among the members of S, in increasing order.
Rank(S, x) == Cardinality({y \in S : y <= x})

\* res is d cut down to the columns K and the rows R: those and no others,
\* in d's order, with d's labels, index labels and values.
IsRestriction(res, d, K, R) ==
    LET kth == [i \in K |-> Rank(K, i)]
        rth == [r \in R |-> Rank(R, r)]
    IN  /\ Len(res.columns) = Cardinality(K)
        /\ \A i \in K : res.columns[kth[i]] = d.columns[i]
        /\ Len(res.data) = Cardinality(R)
        /\ \A r \in R :
             /\ res.data[rth[r]].index = d.data[r].index
             /\ Len(res.data[rth[r]].values) = Cardinality(K)
             /\ \A i \in K : res.data[rth[r]].values[kth[i]] = d.data[r].values[i]

Labels(d) == {d.columns[i] : i \in 1..Len(d.columns)}
Missing(d) == \E r \in 1..Len(d.data) : \E i \in 1..Len(d.data[r].values) : isna(d.data[r].values[i])
Called(fn) == ret.fn = fn

Prepared == Called("prepare_kepler_explore") \/ Called("prepare_kepler_modeling")

\* The rows of df with a value in every column of K.
CompleteRows(d, K) == {r \in 1..Len(d.data) : \A i \in K : ~isna(d.data[r].values[i])}

ModelingLabels ==
    <<Str("disposition"), Str("transit_depth"), Str("planetary_radius"),
      Str("temperature"), Str("normalized_depth"), Str("orbital_period"),
      Str("transit_duration")>>

Conforming(d, names) == \A n \in names : Str(n) \in Labels(d)

NoCandidate(d, i) == \A r \in 1..Len(d.data) : d.data[r].values[i] # Str("CANDIDATE")

\* C8 as stated: on a table that contains the seven columns,
\* prepare_kepler_modeling returns a table with exactly the seven renamed
\* columns, in that order, and no row whose disposition is CANDIDATE.
C8_ModelingReturns ==
    Called("prepare_kepler_modeling") /\ Conforming(df, RangeOf(columns_to_keep)) =>
        /\ ret.status = "ok"
        /\ ret.df.columns = ModelingLabels
        /\ NoCandidate(ret.df, 1)

\* The position in df of the column named n.
At(n) == CHOOSE i \in 1..Len(df.columns) : df.columns[i] = Str(n)

\* Every column named in names has at least round(0.75 * rowCount) values.
Survive(names) ==
    LET t == Nearest(3 * Len(df.data), 4)
    IN  \A n \in names : Present(df, At(n)) >= t

\* C8 amended: on a table that contains the seven columns,
\* prepare_kepler_modeling returns iff each of the seven has at least
\* round(0.75 * rowCount) values (or else raises: the column is dropped
\* before it is used); what it returns has exactly the seven renamed
\* columns, in that order, holding the values of the input's columns of
\* the old names, and no row whose disposition is CANDIDATE.
C8_ModelingReturnsIfColumnsSurvive ==
    Called("prepare_kepler_modeling") /\ Conforming(df, RangeOf(columns_to_keep)) =>
        /\ ret.status = "ok" <=> Survive(RangeOf(columns_to_keep))
        /\ ret.status # "ok" => ret.status \in {"AttributeError", "KeyError"}
        /\ ret.status = "ok" =>
             /\ ret.df.columns = ModelingLabels
             /\ NoCandidate(ret.df, 1)
             /\ \A r \in 1..Len(ret.df.data) :
                  /\ Len(ret.df.data[r].values) = Len(columns_to_keep)
                  /\ \A k \in 1..Len(columns_to_keep) :
                       ret.df.data[r].values[k] \in
                           {Num(columns_to_keep[k]), Str("CONFIRMED")}

\* prepare_kepler_modeling has returned rows of a table that had a
\* CANDIDATE row.
C8_Witness ==
    /\ Called("prepare_kepler_modeling") /\ ret.status = "ok"
    /\ Len(ret.df.data) > 0
    /\ Len(ret.df.data) < Len(df.data)
    /\ \E r \in 1..Len(df.data) :
         /\ df.data[r].values[At("koi_disposition")] = Str("CANDIDATE")
         /\ \A i \in 1..Len(df.columns) : ~isna(df.data[r].values[i])

ExploreColumns == {"rowid", "kepid", "kepoi_name", "koi_disposition"}

\* res holds the rows R of df, in order, and the columns K of df but rowid,
\* kepid and kepoi_name, in order, koi_disposition named disposition.
IsExplored(res, K, R) ==
    LET keep == {i \in K : df.columns[i].text \notin RangeOf(columns_to_drop)}
    IN  /\ IsRestriction([columns |-> [i \in 1..Len(res.columns) |->
                                        IF res.columns[i] = Str("disposition")
                                        THEN Str("koi_disposition")
                                        ELSE res.columns[i]],
                          data |-> res.data],
                         df, keep, R)
        /\ Str("koi_disposition") \notin Labels(res)

\* The rows and columns that survive the drop_missing_values(df, 0.75, 1)
\* step.
StepColumns == SurvivingColumns(df, <<3, 4>>)
StepRows == CompleteRows(df, StepColumns)
NotCandidateRows ==
    {r \in StepRows : df.data[r].values[At("koi_disposition")] # Str("CANDIDATE")}

\* C9 as stated: on a table that contains rowid, kepid, kepoi_name and
\* koi_disposition, prepare_kepler_explore returns the rows that survive
\* the drop_missing_values step and are not CANDIDATE, and the columns that
\* survive it but rowid, kepid, kepoi_name, koi_disposition named
\* disposition, all in their order.
C9_ExploreReturns ==
    Called("prepare_kepler_explore") /\ Conforming(df, ExploreColumns) =>
        /\ ret.status = "ok"
        /\ IsExplored(ret.df, StepColumns, NotCandidateRows)

\* C9 amended: on such a table prepare_kepler_explore returns iff each of
\* rowid, kepid, kepoi_name and koi_disposition has at least
\* round(0.75 * rowCount) values (or else raises: the column is dropped
\* before it is used); what it returns is as C9 states.
C9_ExploreReturnsIfColumnsSurvive ==
    Called("prepare_kepler_explore") /\ Conforming(df, ExploreColumns) =>
        /\ ret.status = "ok" <=> Survive(ExploreColumns)
        /\ ret.status # "ok" => ret.status \in {"AttributeError", "KeyError"}
        /\ ret.status = "ok" => IsExplored(ret.df, StepColumns, NotCandidateRows)

\* prepare_kepler_explore has returned, having dropped a sparse column, a
\* row with a missing value and a CANDIDATE row.
C9_Witness ==
    /\ Called("prepare_kepler_explore") /\ ret.status = "ok"
    /\ Len(ret.df.data) = 1 /\ Len(df.data) = 3
    /\ Cardinality(StepColumns) < Len(df.columns)
    /\ Cardinality(StepRows) = 2
    /\ Str("disposition") \in Labels(ret.df)

Zero == <<0, 1>>
One == <<1, 1>>
FullColumns(d) == {i \in 1..Len(d.columns) : Present(d, i) = Len(d.data)}
AllRows(d) == 1..Len(d.data)

====
